---- MODULE Spec2Model ----
(***************************************************************************)
(* Model of the payloops TypeScript SDK: the webhook verifier              *)
(* (src/src/webhooks.ts) and the transport client (src/src/client.ts).     *)
(*                                                                         *)
(* A JavaScript string is a sequence of one-character strings, so that     *)
(* split, trim, startsWith, slice and parseInt are computed as the code    *)
(* computes them.  The JavaScript value undefined is the one-element       *)
(* sequence Undefined, which no string equals.                             *)
(***************************************************************************)
EXTENDS Integers, Sequences, FiniteSets, TLC

(***************************************************************************)
(* Bounds of the model.                                                    *)
(***************************************************************************)
\* Date.now() at the call of verify, in epoch milliseconds
DateNow == 400000
\* tolerances given explicitly range over 0..MaxTolerance seconds
MaxTolerance == 1

(***************************************************************************)
(* JavaScript strings                                                      *)
(***************************************************************************)
Undefined == <<"undefined">>

\* JavaScript truthiness of a string-or-undefined value
Truthy(v) == v # Undefined /\ v # <<>>

WhiteSpace == {" "}

Digits == <<"0", "1", "2", "3", "4", "5", "6", "7", "8", "9">>

HexDigits == <<"0", "1", "2", "3", "4", "5", "6", "7", "8", "9",
               "a", "b", "c", "d", "e", "f">>

IsDigit(ch) == \E i \in 1..Len(Digits) : Digits[i] = ch

DigitVal(ch) == (CHOOSE i \in 1..Len(Digits) : Digits[i] = ch) - 1

\* String.prototype.split with a one-character separator: the pieces
\* between consecutive separators, one more than there are separators
Split(s, sep) ==
    LET at     == {i \in 1..Len(s) : s[i] = sep}
        pos(k) == CHOOSE i \in at : Cardinality({j \in at : j < i}) = k - 1
        n      == Cardinality(at) + 1
    IN  [k \in 1..n |->
            SubSeq(s, IF k = 1 THEN 1 ELSE pos(k - 1) + 1,
                      IF k = n THEN Len(s) ELSE pos(k) - 1)]

RECURSIVE TrimStart(_)
TrimStart(s) ==
    IF s # <<>> /\ Head(s) \in WhiteSpace THEN TrimStart(Tail(s)) ELSE s

RECURSIVE TrimEnd(_)
TrimEnd(s) ==
    IF s # <<>> /\ s[Len(s)] \in WhiteSpace
    THEN TrimEnd(SubSeq(s, 1, Len(s) - 1)) ELSE s

\* String.prototype.trim
Trim(s) == TrimEnd(TrimStart(s))

\* String.prototype.startsWith
StartsWith(s, prefix) ==
    Len(s) >= Len(prefix) /\ SubSeq(s, 1, Len(prefix)) = prefix

\* String.prototype.slice(n)
Slice(s, n) == SubSeq(s, n + 1, Len(s))

\* String.prototype.repeat
Repeat(ch, n) == [i \in 1..n |-> ch]

RECURSIVE DigitsValue(_, _, _)
\* value of the longest run of decimal digits of s starting at i; acc is
\* <<>> while no digit has been read
DigitsValue(s, i, acc) ==
    IF i <= Len(s) /\ IsDigit(s[i])
    THEN DigitsValue(s, i + 1,
                     <<(IF acc = <<>> THEN 0 ELSE acc[1] * 10) + DigitVal(s[i])>>)
    ELSE acc

\* parseInt(s, 10): leading white space is skipped, a sign is read, the
\* longest prefix of digits is the value, and anything after it is ignored;
\* NaN when there is no digit
ParseInt(s) ==
    LET t    == TrimStart(s)
        neg  == t # <<>> /\ Head(t) = "-"
        sgn  == t # <<>> /\ Head(t) \in {"-", "+"}
        body == IF sgn THEN Tail(t) ELSE t
        v    == DigitsValue(body, 1, <<>>)
    IN  IF v = <<>> THEN [nan |-> TRUE, n |-> 0]
        ELSE [nan |-> FALSE, n |-> IF neg THEN 0 - v[1] ELSE v[1]]

RECURSIVE NatToDecimal(_)
NatToDecimal(n) ==
    IF n < 10 THEN <<Digits[n + 1]>>
    ELSE Append(NatToDecimal(n \div 10), Digits[(n % 10) + 1])

\* `${n}` for an integer n
ToDecimal(n) == IF n < 0 THEN <<"-">> \o NatToDecimal(0 - n) ELSE NatToDecimal(n)

\* Math.abs
Abs(n) == IF n < 0 THEN 0 - n ELSE n

(***************************************************************************)
(* Bytes and UTF-8 (Buffer.from(string), Buffer.toString('utf8'))          *)
(***************************************************************************)
\* the characters of the model with their ASCII codes
AsciiTable ==
    << <<" ", 32>>, <<"\"", 34>>, <<"+", 43>>, <<",", 44>>, <<"-", 45>>,
       <<".", 46>>,
       <<"0", 48>>, <<"1", 49>>, <<"2", 50>>, <<"3", 51>>, <<"4", 52>>,
       <<"5", 53>>, <<"6", 54>>, <<"7", 55>>, <<"8", 56>>, <<"9", 57>>,
       <<":", 58>>, <<"=", 61>>, <<"A", 65>>, <<"[", 91>>, <<"]", 93>>,
       <<"a", 97>>, <<"b", 98>>, <<"c", 99>>, <<"d", 100>>, <<"e", 101>>,
       <<"f", 102>>, <<"t", 116>>, <<"v", 118>>, <<"x", 120>>,
       <<"{", 123>>, <<"}", 125>> >>

\* the one non-ASCII character of the model, e-acute: two bytes in UTF-8
EAcute == "U+00E9"

\* what decoding substitutes for a byte sequence that is not UTF-8
ReplacementChar == "U+FFFD"

\* the code of each ASCII character, and the character of each code
AsciiCode ==
    [ch \in {AsciiTable[i][1] : i \in 1..Len(AsciiTable)} |->
        AsciiTable[CHOOSE i \in 1..Len(AsciiTable) : AsciiTable[i][1] = ch][2]]

AsciiChar ==
    [b \in {AsciiTable[i][2] : i \in 1..Len(AsciiTable)} |->
        AsciiTable[CHOOSE i \in 1..Len(AsciiTable) : AsciiTable[i][2] = b][1]]

IsAscii(ch) == ch \in DOMAIN AsciiCode

\* the UTF-8 bytes of one character
EncodeChar(ch) ==
    IF IsAscii(ch) THEN <<AsciiCode[ch]>>
    ELSE IF ch = EAcute THEN <<195, 169>>
    ELSE <<239, 191, 189>>

RECURSIVE EncodeRange(_, _, _)
EncodeRange(s, lo, hi) ==
    IF lo > hi THEN <<>>
    ELSE IF lo = hi THEN EncodeChar(s[lo])
    ELSE LET mid == (lo + hi) \div 2
         IN  EncodeRange(s, lo, mid) \o EncodeRange(s, mid + 1, hi)

\* Buffer.from(s): the UTF-8 bytes of the string s
EncodeUtf8(s) == EncodeRange(s, 1, Len(s))

RECURSIVE DecodeUtf8(_)
\* buffer.toString('utf8')
DecodeUtf8(b) ==
    IF b = <<>> THEN <<>>
    ELSE IF b[1] \in DOMAIN AsciiChar
    THEN <<AsciiChar[b[1]]>> \o DecodeUtf8(Tail(b))
    ELSE IF Len(b) >= 2 /\ b[1] = 195 /\ b[2] = 169
    THEN <<EAcute>> \o DecodeUtf8(SubSeq(b, 3, Len(b)))
    ELSE IF Len(b) >= 3 /\ b[1] = 239 /\ b[2] = 191 /\ b[3] = 189
    THEN <<ReplacementChar>> \o DecodeUtf8(SubSeq(b, 4, Len(b)))
    ELSE <<ReplacementChar>> \o DecodeUtf8(Tail(b))

\* a payload is a string or a Buffer
StringPayload(s) == [type |-> "string", data |-> s]
BufferPayload(b) == [type |-> "Buffer", data |-> b]

(***************************************************************************)
(* Results of a call: a returned value or a thrown error                   *)
(***************************************************************************)
Return(v) == [kind |-> "return", name |-> "", message |-> "", value |-> v]
Throw(name, message) ==
    [kind |-> "throw", name |-> name, message |-> message, value |-> <<>>]

(***************************************************************************)
(* JSON.parse, on the subset of JSON made of integers, strings without     *)
(* escapes, arrays and objects, with white space between tokens.  The      *)
(* parsed value is represented by its text without insignificant white     *)
(* space, so two payloads parse to the same value when they differ only    *)
(* in white space.                                                         *)
(***************************************************************************)
ParseFail == [ok |-> FALSE, out |-> <<>>, next |-> 0]
ParseOk(out, next) == [ok |-> TRUE, out |-> out, next |-> next]

RECURSIVE SkipWs(_, _)
SkipWs(s, i) == IF i <= Len(s) /\ s[i] \in WhiteSpace THEN SkipWs(s, i + 1) ELSE i

RECURSIVE EndOfDigits(_, _)
EndOfDigits(s, i) == IF i <= Len(s) /\ IsDigit(s[i]) THEN EndOfDigits(s, i + 1) ELSE i

ParseNumber(s, i) ==
    LET j == IF i <= Len(s) /\ s[i] = "-" THEN i + 1 ELSE i
        k == IF j <= Len(s) /\ s[j] = "0" THEN j + 1 ELSE EndOfDigits(s, j)
    IN  IF k = j THEN ParseFail ELSE ParseOk(SubSeq(s, i, k - 1), k)

RECURSIVE EndOfString(_, _)
EndOfString(s, i) ==
    IF i > Len(s) THEN 0 ELSE IF s[i] = "\"" THEN i ELSE EndOfString(s, i + 1)

ParseString(s, i) ==
    IF i <= Len(s) /\ s[i] = "\""
    THEN LET e == EndOfString(s, i + 1)
         IN  IF e = 0 THEN ParseFail ELSE ParseOk(SubSeq(s, i, e), e + 1)
    ELSE ParseFail

RECURSIVE ParseValue(_, _)
RECURSIVE ParseElements(_, _, _)
RECURSIVE ParseMembers(_, _, _)

ParseValue(s, i0) ==
    LET i == SkipWs(s, i0)
    IN  IF i > Len(s) THEN ParseFail
        ELSE IF s[i] = "["
        THEN LET j == SkipWs(s, i + 1)
             IN  IF j <= Len(s) /\ s[j] = "]" THEN ParseOk(<<"[", "]">>, j + 1)
                 ELSE ParseElements(s, i + 1, <<"[">>)
        ELSE IF s[i] = "{"
        THEN LET j == SkipWs(s, i + 1)
             IN  IF j <= Len(s) /\ s[j] = "}" THEN ParseOk(<<"{", "}">>, j + 1)
                 ELSE ParseMembers(s, i + 1, <<"{">>)
        ELSE IF s[i] = "\"" THEN ParseString(s, i)
        ELSE ParseNumber(s, i)

ParseElements(s, i, acc) ==
    LET v == ParseValue(s, i)
    IN  IF ~v.ok THEN ParseFail
        ELSE LET j == SkipWs(s, v.next)
             IN  IF j > Len(s) THEN ParseFail
                 ELSE IF s[j] = ","
                 THEN ParseElements(s, j + 1, acc \o v.out \o <<",">>)
                 ELSE IF s[j] = "]" THEN ParseOk(acc \o v.out \o <<"]">>, j + 1)
                 ELSE ParseFail

ParseMembers(s, i, acc) ==
    LET k == ParseString(s, SkipWs(s, i))
    IN  IF ~k.ok THEN ParseFail
        ELSE LET c == SkipWs(s, k.next)
             IN  IF c > Len(s) \/ s[c] # ":" THEN ParseFail
                 ELSE LET v == ParseValue(s, c + 1)
                      IN  IF ~v.ok THEN ParseFail
                          ELSE LET j == SkipWs(s, v.next)
                                   m == acc \o k.out \o <<":">> \o v.out
                               IN  IF j > Len(s) THEN ParseFail
                                   ELSE IF s[j] = ","
                                   THEN ParseMembers(s, j + 1, m \o <<",">>)
                                   ELSE IF s[j] = "}"
                                   THEN ParseOk(m \o <<"}">>, j + 1)
                                   ELSE ParseFail

\* a parser that takes any text for JSON
JSONParse_Lenient(s) == Return(s)

\* JSON.parse(s): the parsed value, or a SyntaxError
JSONParse(s) ==
    LET v == ParseValue(s, 1)
    IN  IF v.ok /\ SkipWs(s, v.next) = Len(s) + 1
        THEN Return(v.out)
        ELSE Throw("SyntaxError", "Unexpected token in JSON")

(***************************************************************************)
(* HMAC-SHA256, hex encoded.  The digest is modelled as an ideal keyed     *)
(* hash: a string of HexDigestLen lower-case hex digits that is a          *)
(* function of the secret and of the bytes of the message, and that        *)
(* differs for different (secret, message) pairs of the model (the two hex *)
(* digits of the secret's index, then two hex digits per message byte,     *)
(* padded with zeros; messages of the model are shorter than 32 bytes).    *)
(***************************************************************************)
HexDigestLen == 64

Secrets == <<"whsec_test_secret_123", "s3cr3t">>

SecretIndex(secret) == CHOOSE i \in 1..Len(Secrets) : Secrets[i] = secret

Hex2(b) == <<HexDigits[(b \div 16) + 1], HexDigits[(b % 16) + 1]>>

HexOfBytes(b) == [i \in 1..(2 * Len(b)) |-> Hex2(b[(i + 1) \div 2])[2 - (i % 2)]]

\* crypto.createHmac('sha256', secret).update(msg).digest('hex')
HmacSha256Hex(secret, msg) ==
    LET body == Hex2(SecretIndex(secret)) \o HexOfBytes(EncodeUtf8(msg))
    IN  body \o Repeat("0", HexDigestLen - Len(body))

\* crypto.timingSafeEqual(a, b) on two byte sequences: a RangeError when
\* their lengths differ
TimingSafeEqual(a, b) ==
    IF Len(a) # Len(b)
    THEN Throw("RangeError", "Input buffers must have the same byte length")
    ELSE Return(a = b)

(***************************************************************************)
(* Webhooks.verify                                                         *)
(***************************************************************************)
DefaultTolerance == 300

\* the tolerance option left out
NoTolerance == <<>>

RECURSIVE ParseParts(_, _, _)
\* the loop over the comma-separated parts of the header: the last `t` and
\* the last `v1` entry win; value is undefined for a part without `=`
ParseParts(parts, i, acc) ==
    IF i > Len(parts) THEN acc
    ELSE LET kv    == Split(Trim(parts[i]), "=")
             key   == kv[1]
             value == IF Len(kv) >= 2 THEN kv[2] ELSE Undefined
         IN  ParseParts(parts, i + 1,
                 IF key = <<"t">> THEN [acc EXCEPT !.timestamp = value]
                 ELSE IF key = <<"v", "1">> THEN [acc EXCEPT !.v1Signature = value]
                 ELSE acc)

\* v1Signature after the loop and the `v1=` fallback
V1Signature(signature) ==
    LET parsed == ParseParts(Split(signature, ","), 1,
                             [timestamp |-> Undefined, v1Signature |-> Undefined])
    IN  IF ~Truthy(parsed.v1Signature) /\ StartsWith(signature, <<"v", "1", "=">>)
        THEN Slice(signature, 3)
        ELSE parsed.v1Signature

\* signatureParts.find((p) => p.startsWith('t='))
TimestampHeader(signatureParts) ==
    IF \E i \in 1..Len(signatureParts) : StartsWith(signatureParts[i], <<"t", "=">>)
    THEN signatureParts[CHOOSE i \in 1..Len(signatureParts) :
             /\ StartsWith(signatureParts[i], <<"t", "=">>)
             /\ \A j \in 1..(i - 1) : ~StartsWith(signatureParts[j], <<"t", "=">>)]
    ELSE Undefined

\* a verifier that reads no timestamp from the header
Ts_Ignored(signature) == Undefined

\* ts = timestamp || (timestampHeader ? timestampHeader.split('=')[1] : undefined)
Ts(signature) ==
    LET signatureParts  == Split(signature, ",")
        parsed          == ParseParts(signatureParts, 1,
                               [timestamp |-> Undefined, v1Signature |-> Undefined])
        timestampHeader == TimestampHeader(signatureParts)
    IN  IF Truthy(parsed.timestamp) THEN parsed.timestamp
        ELSE IF timestampHeader # Undefined THEN Split(timestampHeader, "=")[2]
        ELSE Undefined

\* a timestamp check that rejects the boundary of the window too
TimestampTooOld_AtBoundary(ts, now, tolerance) ==
    /\ Truthy(ts)
    /\ LET timestampMs == ParseInt(ts)
       IN  ~timestampMs.nan /\ Abs(now - timestampMs.n) >= tolerance * 1000

\* the timestamp check: Math.abs(now - parseInt(ts, 10)) > tolerance * 1000,
\* which is false when parseInt yields NaN
TimestampTooOld(ts, now, tolerance) ==
    /\ Truthy(ts)
    /\ LET timestampMs == ParseInt(ts)
       IN  ~timestampMs.nan /\ Abs(now - timestampMs.n) > tolerance * 1000

\* a signing string that leaves the timestamp out
SignaturePayload_PayloadOnly(ts, payloadStr) == payloadStr

\* a signing string that has the dot with or without a timestamp
SignaturePayload_AlwaysDotted(ts, payloadStr) ==
    (IF Truthy(ts) THEN ts ELSE <<>>) \o <<".">> \o payloadStr

\* the string the digest is computed over
SignaturePayload(ts, payloadStr) ==
    IF Truthy(ts) THEN ts \o <<".">> \o payloadStr ELSE payloadStr

\* a Buffer read one character per byte
PayloadStr_BytePerChar(payload) ==
    IF payload.type = "string" THEN payload.data
    ELSE [i \in 1..Len(payload.data) |->
             IF payload.data[i] \in DOMAIN AsciiChar
             THEN AsciiChar[payload.data[i]] ELSE ReplacementChar]

\* typeof payload === 'string' ? payload : payload.toString('utf8')
PayloadStr(payload) ==
    IF payload.type = "string" THEN payload.data ELSE DecodeUtf8(payload.data)

\* a comparison that does not read the header's digest
IsValid_ExpectedWithItself(v1Signature, expectedSignature) ==
    TimingSafeEqual(EncodeUtf8(expectedSignature), EncodeUtf8(expectedSignature))

\* the comparison of the header's digest with the expected one
IsValid(v1Signature, expectedSignature) ==
    TimingSafeEqual(EncodeUtf8(v1Signature), EncodeUtf8(expectedSignature))

Verify(options, now) ==
    LET tolerance   == IF Len(options.tolerance) = 0 THEN DefaultTolerance
                       ELSE options.tolerance[1]
        payloadStr  == PayloadStr(options.payload)
        v1Signature == V1Signature(options.signature)
        ts          == Ts(options.signature)
        expectedSignature ==
            HmacSha256Hex(options.secret, SignaturePayload(ts, payloadStr))
        isValid     == IsValid(v1Signature, expectedSignature)
    IN  IF ~Truthy(v1Signature) THEN Throw("Error", "Invalid signature format")
        ELSE IF TimestampTooOld(ts, now, tolerance)
        THEN Throw("Error", "Webhook timestamp too old")
        ELSE IF isValid.kind = "throw" THEN isValid
        ELSE IF ~isValid.value THEN Throw("Error", "Invalid webhook signature")
        ELSE JSONParse(payloadStr)

\* the signature header the sender builds (the tests' createSignature)
CreateSignature(payloadStr, secret, timestamp) ==
    LET ts == ToDecimal(timestamp)
    IN  <<"t", "=">> \o ts \o <<",", "v", "1", "=">>
        \o HmacSha256Hex(secret, ts \o <<".">> \o payloadStr)

\* a constructEvent that hands the payload string back as it is
ConstructEvent_NoParse(payload) == Return(PayloadStr(payload))

\* Webhooks.constructEvent(payload)
ConstructEvent(payload) == JSONParse(PayloadStr(payload))

(***************************************************************************)
(* State                                                                   *)
(***************************************************************************)
VARIABLES
    options,       \* the argument of Webhooks.verify
    dateNow,       \* what Date.now() returns inside verify
    verifyResult,  \* what verify returned or threw; NotCalled before the call
    config,        \* the LoopClient's apiKey, baseUrl and timeout
    call,          \* per request call: its position, timer, signal and outcome
    loop,          \* the construction of the client: its argument and result
    eventResult,   \* what Webhooks.constructEvent returned or threw
    thrown         \* an error about to be constructed, and the error once it is

vars == <<options, dateNow, verifyResult, config, call, loop, eventResult, thrown>>

webhookVars == <<options, dateNow, verifyResult, eventResult>>
clientVars == <<config, call>>

NotCalled == [kind |-> "none", name |-> "", message |-> "", value |-> <<>>]

(***************************************************************************)
(* Inputs of Webhooks.verify                                               *)
(***************************************************************************)
PayloadStrings ==
    { <<"{", "\"", "a", "\"", ":", "1", "}">>,
      <<"{", " ", "\"", "a", "\"", ":", "1", "}">>,
      <<"[", "1", ",", "2", "]">>,
      <<"\"", EAcute, "\"">>,
      <<"{", "\"", "a", "\"", ":">> }

\* the payloads that are also given as the Buffer of their UTF-8 bytes
BufferedStrings ==
    { <<"{", "\"", "a", "\"", ":", "1", "}">>,
      <<"\"", EAcute, "\"">>,
      <<"{", "\"", "a", "\"", ":">> }

Payloads ==
    {StringPayload(p) : p \in PayloadStrings}
    \cup {BufferPayload(EncodeUtf8(p)) : p \in BufferedStrings}

Tolerances == {NoTolerance} \cup {<<t>> : t \in 0..MaxTolerance}

\* the windows, in milliseconds, of the tolerances of the model
Windows == {DefaultTolerance * 1000} \cup {t * 1000 : t \in 0..MaxTolerance}

\* timestamps at, just inside and just outside each window, on both sides
Timestamps ==
    {DateNow} \cup UNION {{DateNow - w - 1, DateNow - w, DateNow + w, DateNow + w + 1}
                          : w \in Windows}

\* what a header can carry as the value of `t`
TimestampValues ==
    {ToDecimal(t) : t \in Timestamps} \cup {<<"a", "b", "c">>, <<>>}

\* the timestamp of a delivery captured when it was sent, stale by now
StaleTimestamp == ToDecimal(DateNow - DefaultTolerance * 1000 - 1)

\* the payload of another delivery
OtherPayload == <<"[", "1", ",", "2", "]">>

\* what a header can carry as the value of `v1`, for a payload and a `t`:
\* the digests of the payload with and without the timestamp, the digest of
\* the payload as it was signed at the stale timestamp, the digest of the
\* other payload, and values that are no digest
DigestValues(payloadStr, ts) ==
    {HmacSha256Hex(Secrets[i], ts \o <<".">> \o payloadStr) : i \in 1..Len(Secrets)}
    \cup {HmacSha256Hex(Secrets[i], payloadStr) : i \in 1..Len(Secrets)}
    \cup {HmacSha256Hex(Secrets[1], StaleTimestamp \o <<".">> \o payloadStr),
          HmacSha256Hex(Secrets[1], ts \o <<".">> \o OtherPayload)}
    \cup {Repeat("a", HexDigestLen),
          Repeat("a", HexDigestLen - 2) \o <<EAcute>>,
          <<"a", "b", "c">>,
          <<>>}

TEntry(ts) == <<"t", "=">> \o ts
V1Entry(d) == <<"v", "1", "=">> \o d

\* the layouts of a header carrying the timestamp value ts and the digest d
HeadersOf(ts, d) ==
    { TEntry(ts) \o <<",">> \o V1Entry(d),
      V1Entry(d),
      TEntry(ts),
      V1Entry(d) \o <<",">> \o TEntry(ts),
      TEntry(ts) \o <<",", " ">> \o V1Entry(d),
      TEntry(ts) \o <<",", "x", "=", "1", ",">> \o V1Entry(d) }

Signatures(payloadStr) ==
    UNION {UNION {HeadersOf(ts, d) : d \in DigestValues(payloadStr, ts)}
           : ts \in TimestampValues}

(***************************************************************************)
(* The transport client (src/src/client.ts).  Its strings are not taken    *)
(* apart by the code, so a string is a sequence of segments and            *)
(* concatenation is \o.  An optional value is None or Some(v).             *)
(***************************************************************************)
None == <<>>
Some(v) == <<v>>

\* number of request calls the caller issues on the one client
NumCalls == 2
\* the timeouts of the clients of the model range over 1..MaxTimeout
\* milliseconds
MaxTimeout == 1

Calls == 1..NumCalls

(***************************************************************************)
(* The error classes (errors.ts)                                           *)
(***************************************************************************)
\* class LoopError: message is what super(message) makes of it, the empty
\* string for undefined; code is kept as given
LoopError(code, message, status) ==
    [name |-> "LoopError", code |-> code,
     message |-> IF message = None THEN <<>> ELSE message[1],
     status |-> status, loopError |-> TRUE, isError |-> TRUE]

\* an AuthenticationError without the default of its message
AuthenticationError_NoDefault(message) ==
    [LoopError(Some("authentication_error"), message, 401)
     EXCEPT !.name = "AuthenticationError"]

AuthenticationError(message) ==
    [LoopError(Some("authentication_error"),
               IF message = None THEN Some(<<"Invalid API key">>) ELSE message,
               401)
     EXCEPT !.name = "AuthenticationError"]

ValidationError(message) ==
    [LoopError(Some("validation_error"), message, 400)
     EXCEPT !.name = "ValidationError"]

NotFoundError(resource) ==
    [LoopError(Some("not_found"), Some(resource \o <<" not found">>), 404)
     EXCEPT !.name = "NotFoundError"]

RateLimitError ==
    [LoopError(Some("rate_limit"), Some(<<"Too many requests">>), 429)
     EXCEPT !.name = "RateLimitError"]

\* class ProcessorError: processorCode is undefined (None) when left out
ProcessorError(message, processorCode) ==
    [name |-> "ProcessorError", code |-> Some("processor_error"),
     message |-> message, status |-> 400, loopError |-> TRUE, isError |-> TRUE,
     processorCode |-> processorCode]

\* an error that is no LoopError: it has neither code nor status
JsError(name, message) ==
    [name |-> name, code |-> None, message |-> message, status |-> 0,
     loopError |-> FALSE, isError |-> TRUE]

NoError ==
    [name |-> "", code |-> None, message |-> <<>>, status |-> 0,
     loopError |-> FALSE, isError |-> FALSE]

AbortError == JsError("AbortError", <<"This operation was aborted">>)

(***************************************************************************)
(* Construction                                                            *)
(***************************************************************************)
DEFAULT_BASE_URL == <<"https://api.loop.dev">>
DEFAULT_TIMEOUT == 30000

\* the argument of new Loop: an API key string or a config object
StringArg(apiKey) == [type |-> "string", value |-> apiKey]
ConfigArg(cfg) == [type |-> "config", value |-> cfg]

\* typeof config === 'string' ? { apiKey: config } : config
NormalizedConfig(arg) ==
    IF arg.type = "string"
    THEN [apiKey |-> Some(arg.value), baseUrl |-> None, timeout |-> None]
    ELSE arg.value

\* a constructor that takes any key, a missing one too
LoopClient_NoKeyCheck(cfg) ==
    [ok |-> TRUE, error |-> NoError,
     client |->
         [apiKey  |-> IF cfg.apiKey = None THEN <<>> ELSE cfg.apiKey[1],
          baseUrl |-> IF cfg.baseUrl = None \/ cfg.baseUrl = Some(<<>>)
                      THEN DEFAULT_BASE_URL ELSE cfg.baseUrl[1],
          timeout |-> IF cfg.timeout = None \/ cfg.timeout = Some(0)
                      THEN DEFAULT_TIMEOUT ELSE cfg.timeout[1]]]

\* new LoopClient(config): apiKey, baseUrl are optional strings and timeout
\* an optional number; `!x` and `x || d` treat the empty string and 0 as
\* they treat undefined
LoopClient(cfg) ==
    IF cfg.apiKey = None \/ cfg.apiKey = Some(<<>>)
    THEN [ok |-> FALSE, error |-> JsError("Error", <<"API key is required">>),
          client |-> [apiKey |-> <<>>, baseUrl |-> <<>>, timeout |-> 0]]
    ELSE [ok |-> TRUE, error |-> NoError,
          client |->
              [apiKey  |-> cfg.apiKey[1],
               baseUrl |-> IF cfg.baseUrl = None \/ cfg.baseUrl = Some(<<>>)
                           THEN DEFAULT_BASE_URL ELSE cfg.baseUrl[1],
               timeout |-> IF cfg.timeout = None \/ cfg.timeout = Some(0)
                           THEN DEFAULT_TIMEOUT ELSE cfg.timeout[1]]]

\* new Loop(config): the client is constructed first, and the two resource
\* facades only if that did not throw
Loop(arg) ==
    LET client == LoopClient(NormalizedConfig(arg))
    IN  [ok |-> client.ok, error |-> client.error, client |-> client.client,
         orders |-> client.ok, checkout |-> client.ok]

\* the configurations the clients of the model are built from
Configs ==
    [apiKey : {Some(<<"sk_test_valid_key">>)},
     baseUrl : {None},
     timeout : {Some(t) : t \in 1..MaxTimeout}]

\* what a caller can pass to a constructor: the key, the base URL and the
\* timeout present, empty (or 0) or missing
ConstructorConfigs ==
    [apiKey : {None, Some(<<>>), Some(<<"sk_test_valid_key">>), Some(<<"sk_test_123">>)},
     baseUrl : {None, Some(<<>>), Some(<<"https://custom.api.com">>)},
     timeout : {None, Some(0)} \cup {Some(t) : t \in 1..MaxTimeout}]

ConstructorStrings == {<<>>, <<"sk_test_valid_key">>, <<"sk_test_123">>}

\* a construction not run yet, and what it leaves behind
NotConstructed(entry, arg) ==
    [entry |-> entry, arg |-> arg, state |-> "new", error |-> NoError,
     orders |-> FALSE, checkout |-> FALSE]

Constructed(entry, arg, result) ==
    [entry |-> entry, arg |-> arg,
     state |-> IF result.ok THEN "constructed" ELSE "threw",
     error |-> result.error,
     orders |-> result.orders, checkout |-> result.checkout]

(***************************************************************************)
(* Request bodies and responses                                            *)
(***************************************************************************)
\* a request body: JSON.stringify throws on a value that cannot be
\* serialized (a circular structure, a BigInt)
ParamsBody == [serializable |-> TRUE, json |-> <<"{\"amount\":1000}">>]
CircularBody == [serializable |-> FALSE, json |-> <<>>]
EmptyObject == [serializable |-> TRUE, json |-> <<"{}">>]

Bodies == {None, Some(ParamsBody), Some(CircularBody)}

JSONStringify(v) ==
    IF v.serializable THEN Return(v.json)
    ELSE Throw("TypeError", <<"Converting circular structure to JSON">>)

Paths == {<<"/v1/orders">>}

\* the statuses the backend of the model answers with
Statuses == {200, 201, 204, 400, 401, 404, 429, 500}

\* response.ok
Ok(status) == status \in 200..299

\* a response body: undecodable, or JSON null, or a JSON object that
\* carries code and message or neither
ObjectBody ==
    [decodes |-> TRUE, isNull |-> FALSE, value |-> "object",
     code |-> Some("backend_code"), message |-> Some(<<"backend message">>)]
EmptyObjectBody ==
    [decodes |-> TRUE, isNull |-> FALSE, value |-> "emptyObject",
     code |-> None, message |-> None]
NullBody ==
    [decodes |-> TRUE, isNull |-> TRUE, value |-> "null",
     code |-> None, message |-> None]
GarbageBody ==
    [decodes |-> FALSE, isNull |-> FALSE, value |-> "",
     code |-> None, message |-> None]

ResponseBodies == {ObjectBody, EmptyObjectBody, NullBody, GarbageBody}

\* what .catch(() => ({code: 'unknown', message: 'An error occurred'})) yields
UnknownErrorBody ==
    [decodes |-> TRUE, isNull |-> FALSE, value |-> "unknown",
     code |-> Some("unknown"), message |-> Some(<<"An error occurred">>)]

\* what fetch rejects with when no response is received
NetworkFailures == {JsError("TypeError", <<"fetch failed">>)}

(***************************************************************************)
(* A request call                                                          *)
(***************************************************************************)
NoTimer == [state |-> "none", remaining |-> 0]

NoRequest ==
    [method |-> "", url |-> <<>>,
     headers |-> [ContentType |-> "", XApiKey |-> <<>>, UserAgent |-> ""],
     body |-> None]

Pending == [state |-> "pending", value |-> None, error |-> NoError]
Fulfilled(v) == [state |-> "fulfilled", value |-> v, error |-> NoError]
Rejected(e) == [state |-> "rejected", value |-> None, error |-> e]

IdleCall ==
    [pc |-> "idle", timer |-> NoTimer, aborted |-> FALSE, attempts |-> 0,
     sent |-> NoRequest, status |-> 0, outcome |-> Pending]

\* setTimeout(() => controller.abort(), timeout): a timer that fires when
\* `remaining` milliseconds have passed
SetTimeout(timeout) == [state |-> "armed", remaining |-> timeout]

\* a clearTimeout that leaves the timer armed
ClearTimeout_LeavesArmed(timer) == timer

\* clearTimeout(timeoutId): nothing to do for a timer that has fired
ClearTimeout(timer) ==
    IF timer.state = "armed" THEN [state |-> "cleared", remaining |-> 0] ELSE timer

\* a catch block that does not tell the abort from a network failure
CatchError_AbortAsNetworkError(error) ==
    IF error.loopError THEN error
    ELSE LoopError(Some("network_error"),
                   Some(IF error.isError THEN error.message ELSE <<"Network error">>),
                   0)

\* a catch block that takes every failure for the timeout
CatchError_AlwaysTimeout(error) ==
    IF error.loopError THEN error
    ELSE LoopError(Some("timeout"), Some(<<"Request timed out">>), 408)

\* the catch block of request, after clearTimeout: what it throws
CatchError(error) ==
    IF error.loopError THEN error
    ELSE IF error.isError /\ error.name = "AbortError"
    THEN LoopError(Some("timeout"), Some(<<"Request timed out">>), 408)
    ELSE LoopError(Some("network_error"),
                   Some(IF error.isError THEN error.message ELSE <<"Network error">>),
                   0)

\* the switch on response.status: what it throws for the decoded error body
StatusError(status, error) ==
    IF status = 404 THEN NotFoundError(<<"Resource">>)
    ELSE IF status = 429 THEN RateLimitError
    ELSE IF error.isNull
    THEN JsError("TypeError", <<"Cannot read properties of null">>)
    ELSE IF status = 401 THEN AuthenticationError(error.message)
    ELSE IF status = 400 THEN ValidationError(error.message)
    ELSE LoopError(error.code, error.message, status)

\* an error body that is taken as it is, undecodable or not
ErrorBody_NoCatch(body) == body

\* await response.json().catch(() => ({code: 'unknown', ...})): the decoded
\* body, or the unknown-error body when decoding fails
ErrorBody(body) == IF body.decodes THEN body ELSE UnknownErrorBody

\* a client that reads the body of every 2xx response, a 204 too
AfterResponse_No204(status) ==
    IF ~Ok(status) THEN "errorBody" ELSE "successBody"

\* where request goes once fetch has resolved: to the error body of a
\* non-2xx response, to its end for a 204, else to the body of the response
AfterResponse(status) ==
    IF ~Ok(status) THEN "errorBody"
    ELSE IF status = 204 THEN "settled"
    ELSE "successBody"

\* a request whose absent body stays absent
BodyOrEmpty_Absent(body) ==
    IF body = None THEN [serializable |-> TRUE, json |-> <<>>] ELSE body[1]

\* body ?? {}
BodyOrEmpty(body) == IF body = None THEN EmptyObject ELSE body[1]

\* one abort controller shared by all the calls of the client
Abort_SharedController(calls, c) ==
    [d \in DOMAIN calls |-> [calls[d] EXCEPT !.aborted = TRUE]]

\* controller.abort() on the controller request made for call c
Abort(calls, c) == [calls EXCEPT ![c].aborted = TRUE]

\* a request that puts the default timeout back into the client
ReadOnlyConfig_TimeoutReset ==
    config' = [config EXCEPT !.timeout = DEFAULT_TIMEOUT]

\* request reads this.apiKey, this.baseUrl and this.timeout and assigns
\* none of them
ReadOnlyConfig == config' = config

(***************************************************************************)
(* Actions of the transport client                                         *)
(***************************************************************************)
\* request(method, path, body) up to its first await: the timer is armed,
\* the body is serialized and fetch is called; a body that cannot be
\* serialized throws inside the try block, before fetch is called.  `sent`
\* is the request fetch has in flight, until fetch settles
Request(c, method, path, body) ==
    /\ call[c].pc = "idle"
    /\ LET url       == config.baseUrl \o path
           headers   == [ContentType |-> "application/json",
                         XApiKey |-> config.apiKey,
                         UserAgent |-> "@payloops/sdk/0.0.1"]
           timeoutId == SetTimeout(config.timeout)
           encoded   == JSONStringify(BodyOrEmpty(body))
       IN  IF method # "GET" /\ encoded.kind = "throw"
           THEN call' = [call EXCEPT ![c] =
                    [@ EXCEPT !.pc = "settled",
                              !.timer = ClearTimeout(timeoutId),
                              !.outcome = Rejected(CatchError(
                                  JsError(encoded.name, encoded.message)))]]
           ELSE call' = [call EXCEPT ![c] =
                    [@ EXCEPT !.pc = "fetch",
                              !.timer = timeoutId,
                              !.attempts = @ + 1,
                              !.sent = [method |-> method, url |-> url,
                                        headers |-> headers,
                                        body |-> IF method # "GET"
                                                 THEN Some(encoded.value)
                                                 ELSE None]]]
    /\ ReadOnlyConfig
    /\ UNCHANGED <<webhookVars, loop, thrown>>

Get(c, path) == Request(c, "GET", path, None)

Post(c, path, body) == Request(c, "POST", path, body)

Put(c, path, body) == Request(c, "PUT", path, body)

Delete(c, path) == Request(c, "DELETE", path, None)

(***************************************************************************)
(* The resource facades (resources/orders.ts, resources/checkout.ts): each *)
(* operation is one call of the client, whose promise it returns           *)
(***************************************************************************)
\* orders.create(params)
OrdersCreate(c, params) == Post(c, <<"/v1/orders">>, params)

\* orders.get(orderId)
OrdersGet(c, orderId) == Get(c, <<"/v1/orders/", orderId>>)

\* orders.pay(orderId, params?)
OrdersPay(c, orderId, params) == Post(c, <<"/v1/orders/", orderId, "/pay">>, params)

\* orders.getTransactions(orderId)
OrdersGetTransactions(c, orderId) ==
    Get(c, <<"/v1/orders/", orderId, "/transactions">>)

\* a refund that is sent to the path of pay
OrdersRefund_AsPay(c, orderId, params) ==
    Post(c, <<"/v1/orders/", orderId, "/pay">>, params)

\* orders.refund(orderId, params?)
OrdersRefund(c, orderId, params) ==
    Post(c, <<"/v1/orders/", orderId, "/refund">>, params)

\* orders.getRefunds(orderId)
OrdersGetRefunds(c, orderId) == Get(c, <<"/v1/orders/", orderId, "/refunds">>)

\* checkout.createSession(params)
CheckoutCreateSession(c, params) == Post(c, <<"/v1/checkout/sessions">>, params)

\* checkout.getSession(sessionId)
CheckoutGetSession(c, sessionId) == Get(c, <<"/v1/checkout/sessions/", sessionId>>)

\* fetch resolves with a response: the timer is cleared; a 204 settles the
\* call, any other response is followed by the reading of its body
FetchResolve(c, status) ==
    /\ call[c].pc = "fetch"
    /\ ~call[c].aborted
    /\ call' = [call EXCEPT ![c] =
           [@ EXCEPT !.timer = ClearTimeout(@),
                     !.sent = NoRequest,
                     !.status = status,
                     !.pc = AfterResponse(status),
                     !.outcome = IF AfterResponse(status) = "settled"
                                 THEN Fulfilled(None) ELSE @]]
    /\ ReadOnlyConfig
    /\ UNCHANGED <<webhookVars, loop, thrown>>

\* fetch rejects without a response (DNS, connection refused): the catch
\* block clears the timer and throws
FetchReject(c, error) ==
    /\ call[c].pc = "fetch"
    /\ ~call[c].aborted
    /\ call' = [call EXCEPT ![c] =
           [@ EXCEPT !.timer = ClearTimeout(@),
                     !.sent = NoRequest,
                     !.pc = "settled",
                     !.outcome = Rejected(CatchError(error))]]
    /\ ReadOnlyConfig
    /\ UNCHANGED <<webhookVars, loop, thrown>>

\* a timer that clearTimeout does not stop: it fires when it is due or
\* has been cleared
TimerFire_AfterClear(c) ==
    /\ \/ call[c].timer.state = "armed" /\ call[c].timer.remaining = 0
       \/ call[c].timer.state = "cleared"
    /\ call' = Abort([call EXCEPT ![c].timer = [state |-> "fired", remaining |-> 0]],
                     c)
    /\ ReadOnlyConfig
    /\ UNCHANGED <<webhookVars, loop, thrown>>

\* the timer fires: controller.abort()
TimerFire(c) ==
    /\ call[c].timer.state = "armed"
    /\ call[c].timer.remaining = 0
    /\ call' = Abort([call EXCEPT ![c].timer = [state |-> "fired", remaining |-> 0]],
                     c)
    /\ ReadOnlyConfig
    /\ UNCHANGED <<webhookVars, loop, thrown>>

\* the aborted fetch rejects with an AbortError, which the catch block gets
AbortReject(c) ==
    /\ call[c].pc = "fetch"
    /\ call[c].aborted
    /\ call' = [call EXCEPT ![c] =
           [@ EXCEPT !.timer = ClearTimeout(@),
                     !.sent = NoRequest,
                     !.pc = "settled",
                     !.outcome = Rejected(CatchError(AbortError))]]
    /\ ReadOnlyConfig
    /\ UNCHANGED <<webhookVars, loop, thrown>>

\* the body of a non-2xx response has been read: response.json() resolved,
\* or rejected and was replaced by the unknown-error body; the switch
\* throws and the catch block rethrows or wraps
ErrorBodyDone(c, body) ==
    /\ call[c].pc = "errorBody"
    /\ LET error == ErrorBody(body)
       IN  call' = [call EXCEPT ![c] =
               [@ EXCEPT !.timer = ClearTimeout(@),
                         !.pc = "settled",
                         !.outcome = Rejected(CatchError(
                             StatusError(call[c].status, error)))]]
    /\ ReadOnlyConfig
    /\ UNCHANGED <<webhookVars, loop, thrown>>

\* the promise of `return response.json()` settles: it is returned without
\* await, so its rejection goes to the caller as it is, past the catch block
SuccessBodyDone(c, body) ==
    /\ call[c].pc = "successBody"
    /\ call' = [call EXCEPT ![c] =
           [@ EXCEPT !.pc = "settled",
                     !.outcome = IF body.decodes THEN Fulfilled(Some(body.value))
                                 ELSE Rejected(JsError("SyntaxError",
                                          <<"Unexpected token in JSON">>))]]
    /\ ReadOnlyConfig
    /\ UNCHANGED <<webhookVars, loop, thrown>>

\* a millisecond passes for every armed timer; a timer that is due fires
\* before time goes on
Tick ==
    /\ \E c \in Calls : call[c].timer.state = "armed"
    /\ \A c \in Calls : call[c].timer.state = "armed" => call[c].timer.remaining > 0
    /\ call' = [c \in Calls |->
           IF call[c].timer.state = "armed"
           THEN [call[c] EXCEPT !.timer.remaining = @ - 1]
           ELSE call[c]]
    /\ ReadOnlyConfig
    /\ UNCHANGED <<webhookVars, loop, thrown>>

(***************************************************************************)
(* Actions that make an error: the constructors of errors.ts, and the two  *)
(* places of request that throw for a failure.  `thrown.class` and         *)
(* `thrown.args` are what is being constructed, `thrown.error` the result  *)
(***************************************************************************)
Constructing(class) == thrown.class = class /\ thrown.error = NoError

\* new LoopError(code, message, status)
NewLoopError ==
    /\ Constructing("LoopError")
    /\ thrown' = [thrown EXCEPT !.error =
                     LoopError(thrown.args[1], thrown.args[2], thrown.args[3])]
    /\ UNCHANGED <<clientVars, loop, webhookVars>>

\* new AuthenticationError(message?)
NewAuthenticationError ==
    /\ Constructing("AuthenticationError")
    /\ thrown' = [thrown EXCEPT !.error = AuthenticationError(thrown.args[1])]
    /\ UNCHANGED <<clientVars, loop, webhookVars>>

\* new ValidationError(message)
NewValidationError ==
    /\ Constructing("ValidationError")
    /\ thrown' = [thrown EXCEPT !.error = ValidationError(thrown.args[1])]
    /\ UNCHANGED <<clientVars, loop, webhookVars>>

\* new NotFoundError(resource)
NewNotFoundError ==
    /\ Constructing("NotFoundError")
    /\ thrown' = [thrown EXCEPT !.error = NotFoundError(thrown.args[1])]
    /\ UNCHANGED <<clientVars, loop, webhookVars>>

\* new RateLimitError()
NewRateLimitError ==
    /\ Constructing("RateLimitError")
    /\ thrown' = [thrown EXCEPT !.error = RateLimitError]
    /\ UNCHANGED <<clientVars, loop, webhookVars>>

\* new ProcessorError(message, processorCode?)
NewProcessorError ==
    /\ Constructing("ProcessorError")
    /\ thrown' = [thrown EXCEPT !.error =
                     ProcessorError(thrown.args[1], thrown.args[2])]
    /\ UNCHANGED <<clientVars, loop, webhookVars>>

\* what request throws for a response that is not ok: the error body is
\* decoded or replaced, the switch throws and the catch block rethrows or
\* wraps
ResponseError ==
    /\ Constructing("response")
    /\ thrown' = [thrown EXCEPT !.error =
                     CatchError(StatusError(thrown.args[1],
                                            ErrorBody(thrown.args[2])))]
    /\ UNCHANGED <<clientVars, loop, webhookVars>>

\* what request throws when fetch rejects: the catch block tells the abort
\* of the timeout from every other failure
TransportError ==
    /\ Constructing("transport")
    /\ thrown' = [thrown EXCEPT !.error = CatchError(thrown.args[1])]
    /\ UNCHANGED <<clientVars, loop, webhookVars>>

(***************************************************************************)
(* Action of the webhook verifier                                          *)
(***************************************************************************)
ConstructEventCall ==
    /\ eventResult = NotCalled
    /\ eventResult' = ConstructEvent(options.payload)
    /\ UNCHANGED <<options, dateNow, verifyResult, clientVars, loop, thrown>>

VerifyCall ==
    /\ verifyResult = NotCalled
    /\ verifyResult' = Verify(options, dateNow)
    /\ UNCHANGED <<options, dateNow, eventResult, clientVars, loop, thrown>>

(***************************************************************************)
(* Actions of the constructors                                             *)
(***************************************************************************)
\* new Loop(config)
NewLoop ==
    /\ loop.state = "new"
    /\ loop.entry = "Loop"
    /\ LET result == Loop(loop.arg)
       IN  /\ loop' = Constructed(loop.entry, loop.arg, result)
           /\ config' = result.client
    /\ UNCHANGED <<call, webhookVars, thrown>>

\* new LoopClient(config): no resource facade is involved
NewLoopClient ==
    /\ loop.state = "new"
    /\ loop.entry = "LoopClient"
    /\ LET client == LoopClient(loop.arg.value)
           result == [ok |-> client.ok, error |-> client.error,
                      orders |-> FALSE, checkout |-> FALSE]
       IN  /\ loop' = Constructed(loop.entry, loop.arg, result)
           /\ config' = client.client
    /\ UNCHANGED <<call, webhookVars, thrown>>

(***************************************************************************)
(* Specifications                                                          *)
(***************************************************************************)
\* the client after new Loop(config), no request issued yet
ClientInit ==
    /\ \E cfg \in Configs :
          /\ config = Loop(ConfigArg(cfg)).client
          /\ loop = Constructed("Loop", ConfigArg(cfg), Loop(ConfigArg(cfg)))
    /\ call = [c \in Calls |-> IdleCall]

\* one call of verify, not made yet, on inputs of the model; a header
\* without a timestamp is verified at the epoch too, far from every
\* timestamp of the model
WebhookInit ==
    /\ \E p \in Payloads :
          options \in [payload : {p},
                       signature : Signatures(PayloadStr(p)),
                       secret : {Secrets[i] : i \in 1..Len(Secrets)},
                       tolerance : Tolerances]
    /\ dateNow \in IF Ts(options.signature) = Undefined
                   THEN {DateNow, 0} ELSE {DateNow}
    /\ verifyResult = NotCalled
    /\ eventResult = NotCalled

\* the webhook variables while the client runs
WebhookIdle ==
    /\ options = [payload |-> StringPayload(<<>>), signature |-> <<>>,
                  secret |-> Secrets[1], tolerance |-> NoTolerance]
    /\ dateNow = DateNow
    /\ verifyResult = NotCalled
    /\ eventResult = NotCalled

\* no error is being constructed
NotThrown(class, args) == [class |-> class, args |-> args, error |-> NoError]

ErrorsIdle == thrown = NotThrown("", <<>>)

Init == ClientInit /\ WebhookIdle /\ ErrorsIdle

Next ==
    \/ \E c \in Calls, path \in Paths : Get(c, path)
    \/ \E c \in Calls, path \in Paths, body \in Bodies : Post(c, path, body)
    \/ \E c \in Calls, path \in Paths, body \in Bodies : Put(c, path, body)
    \/ \E c \in Calls, path \in Paths : Delete(c, path)
    \/ \E c \in Calls, status \in Statuses : FetchResolve(c, status)
    \/ \E c \in Calls, error \in NetworkFailures : FetchReject(c, error)
    \/ \E c \in Calls : TimerFire(c)
    \/ \E c \in Calls : AbortReject(c)
    \/ \E c \in Calls, body \in ResponseBodies : ErrorBodyDone(c, body)
    \/ \E c \in Calls, body \in ResponseBodies : SuccessBodyDone(c, body)
    \/ Tick

Spec == Init /\ [][Next]_vars

\* the event loop runs a due timer callback and the continuation of a
\* settled promise; the network promises nothing
FairSpec ==
    /\ Spec
    /\ \A c \in Calls : WF_vars(TimerFire(c)) /\ WF_vars(AbortReject(c))

WebhookNext == VerifyCall

\* the client variables while verify runs
ClientIdle ==
    /\ config = Loop(StringArg(<<"sk_test_valid_key">>)).client
    /\ loop = Constructed("Loop", StringArg(<<"sk_test_valid_key">>),
                          Loop(StringArg(<<"sk_test_valid_key">>)))
    /\ call = [c \in Calls |-> IdleCall]

VerifyInit == WebhookInit /\ ClientIdle /\ ErrorsIdle

VerifySpec == VerifyInit /\ [][WebhookNext]_vars

\* a constructor about to be called with an argument of the model; nothing
\* is constructed yet, so there is no client and no call
ConstructInit ==
    /\ loop \in {NotConstructed("Loop", StringArg(k)) : k \in ConstructorStrings}
              \cup {NotConstructed("Loop", ConfigArg(cfg)) : cfg \in ConstructorConfigs}
              \cup {NotConstructed("LoopClient", ConfigArg(cfg)) : cfg \in ConstructorConfigs}
    /\ config = [apiKey |-> <<>>, baseUrl |-> <<>>, timeout |-> 0]
    /\ call = [c \in Calls |-> IdleCall]
    /\ WebhookIdle
    /\ ErrorsIdle

ConstructNext == NewLoop \/ NewLoopClient

ConstructSpec == ConstructInit /\ [][ConstructNext]_vars

EventNext == ConstructEventCall

\* one call of constructEvent, on the payloads verify is called with
EventSpec == VerifyInit /\ [][EventNext]_vars

\* the identifiers given to the facades, and the call that is made
Ids == {"ord_1", "ord_2", "cs_1"}
FacadeCalls == {1}

\* one operation of a facade on the client, and what the transport does
\* with the request
ResourceNext ==
    \/ \E c \in FacadeCalls, params \in Bodies : OrdersCreate(c, params)
    \/ \E c \in FacadeCalls, id \in Ids : OrdersGet(c, id)
    \/ \E c \in FacadeCalls, id \in Ids, params \in Bodies : OrdersPay(c, id, params)
    \/ \E c \in FacadeCalls, id \in Ids : OrdersGetTransactions(c, id)
    \/ \E c \in FacadeCalls, id \in Ids, params \in Bodies : OrdersRefund(c, id, params)
    \/ \E c \in FacadeCalls, id \in Ids : OrdersGetRefunds(c, id)
    \/ \E c \in FacadeCalls, params \in Bodies : CheckoutCreateSession(c, params)
    \/ \E c \in FacadeCalls, id \in Ids : CheckoutGetSession(c, id)
    \/ \E c \in Calls, status \in Statuses : FetchResolve(c, status)
    \/ \E c \in Calls, error \in NetworkFailures : FetchReject(c, error)
    \/ \E c \in Calls : TimerFire(c)
    \/ \E c \in Calls : AbortReject(c)
    \/ \E c \in Calls, body \in ResponseBodies : ErrorBodyDone(c, body)
    \/ \E c \in Calls, body \in ResponseBodies : SuccessBodyDone(c, body)
    \/ Tick

ResourceSpec == Init /\ [][ResourceNext]_vars

\* the arguments of the error constructors
ErrorCodes == {None, Some("test_error"), Some("timeout"), Some("network_error")}
ErrorMessages == {<<"Test error message">>, <<"Invalid API key">>}
ErrorStatuses == {s \in Statuses : ~Ok(s)} \cup {0, 408, 504}
Resources == {<<"Order">>, <<"Resource">>}
ProcessorCodes == {None, Some("card_declined")}

\* error bodies in which the backend supplies a code the client uses too
TimeoutCodeBody ==
    [decodes |-> TRUE, isNull |-> FALSE, value |-> "object",
     code |-> Some("timeout"), message |-> Some(<<"upstream timed out">>)]
NetworkErrorCodeBody ==
    [decodes |-> TRUE, isNull |-> FALSE, value |-> "object",
     code |-> Some("network_error"), message |-> Some(<<"upstream unreachable">>)]

BackendErrorBodies == ResponseBodies \cup {TimeoutCodeBody, NetworkErrorCodeBody}

\* a value thrown that is no Error
ThrownValue == [NoError EXCEPT !.message = <<"thrown string">>]

\* what the fetch of request can reject with
FetchFailures == {AbortError, ThrownValue} \cup NetworkFailures

\* one error about to be made, by a constructor or by request
ErrorInit ==
    /\ \/ \E code \in ErrorCodes, message \in ErrorMessages, status \in ErrorStatuses :
             thrown = NotThrown("LoopError", <<code, Some(message), status>>)
       \/ \E message \in {None} \cup {Some(m) : m \in ErrorMessages} :
             thrown = NotThrown("AuthenticationError", <<message>>)
       \/ \E message \in ErrorMessages :
             thrown = NotThrown("ValidationError", <<Some(message)>>)
       \/ \E resource \in Resources :
             thrown = NotThrown("NotFoundError", <<resource>>)
       \/ thrown = NotThrown("RateLimitError", <<>>)
       \/ \E message \in ErrorMessages, processorCode \in ProcessorCodes :
             thrown = NotThrown("ProcessorError", <<message, processorCode>>)
       \/ \E status \in {s \in Statuses : ~Ok(s)} \cup {504},
              body \in BackendErrorBodies :
             thrown = NotThrown("response", <<status, body>>)
       \/ \E error \in FetchFailures :
             thrown = NotThrown("transport", <<error>>)
    /\ ClientIdle
    /\ WebhookIdle

ErrorNext ==
    \/ NewLoopError
    \/ NewAuthenticationError
    \/ NewValidationError
    \/ NewNotFoundError
    \/ NewRateLimitError
    \/ NewProcessorError
    \/ ResponseError
    \/ TransportError

ErrorSpec == ErrorInit /\ [][ErrorNext]_vars

(***************************************************************************)
(* Properties of Webhooks.verify (checked under VerifySpec)                *)
(***************************************************************************)
Called == verifyResult.kind # "none"

Returned == verifyResult.kind = "return"

ThrewError(message) ==
    /\ verifyResult.kind = "throw"
    /\ verifyResult.name = "Error"
    /\ verifyResult.message = message

InvalidFormat == ThrewError("Invalid signature format")
Expired == ThrewError("Webhook timestamp too old")
InvalidSignature == ThrewError("Invalid webhook signature")

\* the tolerance in force, in seconds: 300 when the option is left out
ToleranceInForce ==
    IF options.tolerance = NoTolerance THEN 300 ELSE options.tolerance[1]

\* s is a decimal integer: digits, after an optional minus sign
IsDecimalInteger(s) ==
    /\ s # Undefined
    /\ LET d == IF s # <<>> /\ Head(s) = "-" THEN Tail(s) ELSE s
       IN  d # <<>> /\ \A i \in 1..Len(d) : IsDigit(d[i])

\* the timestamp t, in milliseconds, is within the tolerance of Date.now()
WithinWindow(t) == Abs(dateNow - t) <= ToleranceInForce * 1000

\* the values the header carries, as verify reads them
HeaderDigest == V1Signature(options.signature)
HeaderTs == Ts(options.signature)

\* the digest verify expects for this payload, secret and header timestamp
ExpectedDigest ==
    HmacSha256Hex(options.secret,
                  IF Truthy(HeaderTs)
                  THEN HeaderTs \o <<".">> \o PayloadStr(options.payload)
                  ELSE PayloadStr(options.payload))

\* the header carries no timestamp, or a decimal one inside the window
HeaderInsideWindow ==
    \/ ~Truthy(HeaderTs)
    \/ IsDecimalInteger(HeaderTs) /\ WithinWindow(ParseInt(HeaderTs).n)

\* C1: verify returns an event only if the header's v1 digest equals the hex
\* HMAC-SHA256 of the signing string under the given secret, and a header
\* inside the tolerance window whose digest has the 64 characters of a
\* digest but differs from it fails with 'Invalid webhook signature'
C1_DigestDecides ==
    Called =>
        /\ Returned => HeaderDigest = ExpectedDigest
        /\ ( /\ Truthy(HeaderDigest)
             /\ Len(HeaderDigest) = 64
             /\ HeaderDigest # ExpectedDigest
             /\ HeaderInsideWindow )
           => InvalidSignature

\* C1 witness: the header `t=<now>,v1=aaaa...a` (64 characters) was rejected
\* as an invalid signature
C1_Witness ==
    /\ options.signature =
           TEntry(ToDecimal(dateNow)) \o <<",">> \o V1Entry([i \in 1..64 |-> "a"])
    /\ InvalidSignature

\* C2: for a well-formed JSON payload and a timestamp T within the tolerance
\* window, the header t=T,v1=HMAC(secret, "T." + payload) verifies under the
\* same secret and the event returned is the parsed payload
C2_RoundTrip ==
    \A T \in Timestamps :
        ( /\ Called
          /\ JSONParse(PayloadStr(options.payload)).kind = "return"
          /\ WithinWindow(T)
          /\ options.signature =
                 CreateSignature(PayloadStr(options.payload), options.secret, T) )
        => /\ Returned
           /\ verifyResult.value = JSONParse(PayloadStr(options.payload)).value

\* C2 witness: a header signed one tolerance before now, over a payload
\* with white space in it, verified and returned the parsed payload
C2_Witness ==
    /\ options.payload = StringPayload(<<"{", " ", "\"", "a", "\"", ":", "1", "}">>)
    /\ options.tolerance = <<1>>
    /\ options.signature =
           CreateSignature(options.payload.data, options.secret, dateNow - 1000)
    /\ Returned
    /\ verifyResult.value = <<"{", "\"", "a", "\"", ":", "1", "}">>

\* C3 (as claimed): a header digest whose byte length differs from the
\* computed digest's is rejected with 'Invalid webhook signature', as a
\* content mismatch is, and no other error is raised
C3_LengthMismatchFailsClosed ==
    ( /\ Called
      /\ Truthy(HeaderDigest)
      /\ HeaderInsideWindow
      /\ Len(EncodeUtf8(HeaderDigest)) # Len(EncodeUtf8(ExpectedDigest)) )
    => InvalidSignature

\* C4 (as claimed): when verify returns an event for a header with a
\* non-empty `t`, that value is an integer timestamp inside the window; and a
\* header with a digest whose timestamp is outside the window is rejected
\* with 'Webhook timestamp too old'
C4_TimestampInsideWindow ==
    Called =>
        /\ (Returned /\ Truthy(HeaderTs))
           => IsDecimalInteger(HeaderTs) /\ WithinWindow(ParseInt(HeaderTs).n)
        /\ ( /\ Truthy(HeaderDigest)
             /\ IsDecimalInteger(HeaderTs)
             /\ ~WithinWindow(ParseInt(HeaderTs).n) )
           => Expired

\* the header is t=T,v1=HMAC(secret, "T." + payload) for the secret given to
\* verify, and the payload is well-formed JSON
CorrectlySigned(T) ==
    /\ JSONParse(PayloadStr(options.payload)).kind = "return"
    /\ options.signature =
           CreateSignature(PayloadStr(options.payload), options.secret, T)

\* C5 (as claimed): a correctly signed header with timestamp T is rejected
\* with 'Webhook timestamp too old' if now - T > tol * 1000 and accepted if
\* now - T <= tol * 1000
C5_OldRejectedElseAccepted ==
    \A T \in Timestamps :
        (Called /\ CorrectlySigned(T))
        => /\ (dateNow - T > ToleranceInForce * 1000) => Expired
           /\ (dateNow - T <= ToleranceInForce * 1000) => Returned

\* C5 (amended): a correctly signed header with timestamp T is rejected with
\* 'Webhook timestamp too old' if now - T > tol * 1000 or T - now > tol * 1000,
\* and accepted if |now - T| <= tol * 1000, the boundary included
C5_OutsideRejectedInsideAccepted ==
    \A T \in Timestamps :
        (Called /\ CorrectlySigned(T))
        => /\ (dateNow - T > ToleranceInForce * 1000) => Expired
           /\ (T - dateNow > ToleranceInForce * 1000) => Expired
           /\ (Abs(dateNow - T) <= ToleranceInForce * 1000) => Returned

\* C5 witness: a correctly signed header exactly 300 s old was accepted with
\* the tolerance left out
C5_Witness ==
    /\ options.tolerance = NoTolerance
    /\ CorrectlySigned(dateNow - 300000)
    /\ Returned

\* the value of the header's `v1` entry: Undefined when the header has no
\* such entry, empty when the entry has no value
HeaderV1Entry ==
    ParseParts(Split(options.signature, ","), 1,
               [timestamp |-> Undefined, v1Signature |-> Undefined]).v1Signature

\* C19 (as claimed): a header with no `v1` entry, or whose `v1` entry has an
\* empty value, is rejected with 'Invalid signature format'
C19_NoDigestIsInvalidFormat ==
    (Called /\ ~Truthy(HeaderV1Entry)) => InvalidFormat

\* the header is `v1=<hex>` and nothing else, <hex> not empty
BareDigest == Slice(options.signature, 3)

IsBareHeader ==
    /\ StartsWith(options.signature, <<"v", "1", "=">>)
    /\ BareDigest # <<>>
    /\ \A i \in 1..Len(BareDigest) :
           \E h \in 1..Len(HexDigits) : HexDigits[h] = BareDigest[i]

MalformedPayload == <<"{", "\"", "a", "\"", ":">>

EventCalled == eventResult.kind # "none"

\* C21: constructEvent returns the parsed payload for every well-formed JSON
\* payload, whatever the header and the secret that came with it, and
\* throws only for the payload that is not well-formed JSON
C21_ConstructEventOnlyParses ==
    EventCalled =>
        IF PayloadStr(options.payload) = MalformedPayload
        THEN eventResult.kind = "throw" /\ eventResult.name = "SyntaxError"
        ELSE /\ eventResult.kind = "return"
             /\ eventResult.value = JSONParse(PayloadStr(options.payload)).value

\* C21 witness: constructEvent has returned the parsed payload, white space
\* removed, of a delivery whose header carries no digest at all
C21_Witness ==
    /\ options.payload = StringPayload(<<"{", " ", "\"", "a", "\"", ":", "1", "}">>)
    /\ options.signature = TEntry(ToDecimal(DateNow))
    /\ eventResult = Return(<<"{", "\"", "a", "\"", ":", "1", "}">>)

\* C27: for the payload that is not well-formed JSON verify returns no
\* event, and with a header correctly signed inside the window what it
\* throws is the SyntaxError of JSON.parse
C27_MalformedJsonFailsClosed ==
    (Called /\ PayloadStr(options.payload) = MalformedPayload) =>
        /\ ~Returned
        /\ \A T \in Timestamps :
               ( /\ WithinWindow(T)
                 /\ options.signature =
                        CreateSignature(MalformedPayload, options.secret, T) )
               => (verifyResult.kind = "throw" /\ verifyResult.name = "SyntaxError")

\* C27 witness: the malformed payload, signed now, was refused with the
\* SyntaxError
C27_Witness ==
    /\ options.payload = StringPayload(MalformedPayload)
    /\ options.signature = CreateSignature(MalformedPayload, options.secret, dateNow)
    /\ verifyResult.kind = "throw"
    /\ verifyResult.name = "SyntaxError"

\* C29: verify given the Buffer of the UTF-8 bytes of a string s has the
\* outcome verify has when given s, with the same header, secret, tolerance
\* and current time; and so has constructEvent
C29_BufferAsString ==
    \A s \in BufferedStrings :
        (Called /\ options.payload = BufferPayload(EncodeUtf8(s))) =>
            /\ verifyResult =
                   Verify([options EXCEPT !.payload = StringPayload(s)], dateNow)
            /\ ConstructEvent(options.payload) = ConstructEvent(StringPayload(s))

\* C29 witness: the Buffer of a payload with a character of two bytes,
\* correctly signed, has verified
C29_Witness ==
    /\ options.payload = BufferPayload(EncodeUtf8(<<"\"", EAcute, "\"">>))
    /\ options.signature =
           CreateSignature(<<"\"", EAcute, "\"">>, options.secret, dateNow)
    /\ verifyResult = Return(<<"\"", EAcute, "\"">>)

\* the value of the header's `t` entry: Undefined when the header has none
HeaderTEntry ==
    ParseParts(Split(options.signature, ","), 1,
               [timestamp |-> Undefined, v1Signature |-> Undefined]).timestamp

\* C25: when the header carries a timestamp value t, verify returns no
\* event for the digest of the payload alone, nor for the digest of
\* "<T>.<payload>" with another timestamp T (the stale one of a captured
\* delivery), nor for the digest of "<t>.<other payload>"; what it accepts
\* is the digest of "<t>.<payload>" with t as the header has it, and the
\* digest of the payload alone when the header carries no timestamp value
C25_DigestBindsTimestampAndPayload ==
    LET payloadStr == PayloadStr(options.payload)
        Hmac(m)    == HmacSha256Hex(options.secret, m)
    IN  Called =>
            /\ Truthy(HeaderTEntry) =>
                   /\ HeaderDigest = Hmac(payloadStr) => ~Returned
                   /\ ( /\ HeaderTEntry # StaleTimestamp
                        /\ HeaderDigest = Hmac(StaleTimestamp \o <<".">> \o payloadStr) )
                      => ~Returned
                   /\ ( /\ payloadStr # OtherPayload
                        /\ HeaderDigest = Hmac(HeaderTEntry \o <<".">> \o OtherPayload) )
                      => ~Returned
                   /\ Returned =>
                          HeaderDigest = Hmac(HeaderTEntry \o <<".">> \o payloadStr)
            /\ (~Truthy(HeaderTEntry) /\ Returned) => HeaderDigest = Hmac(payloadStr)

\* C25 witness: the digest of a delivery signed at the stale timestamp,
\* presented with the current time as its timestamp, was rejected as an
\* invalid signature
C25_Witness ==
    /\ options.secret = Secrets[1]
    /\ options.signature =
           TEntry(ToDecimal(dateNow)) \o <<",">>
           \o V1Entry(HmacSha256Hex(Secrets[1],
                  StaleTimestamp \o <<".">> \o PayloadStr(options.payload)))
    /\ InvalidSignature

\* C26 (as claimed): verify reports the first check that fails, in the order
\* digest present, timestamp window, digest equality, JSON decoding: a header
\* with no `v1` entry fails with 'Invalid signature format', a stale
\* timestamp too; a header with a digest and a timestamp outside the window
\* fails with 'Webhook timestamp too old', a wrong digest too; and a wrong
\* digest inside the window fails with 'Invalid webhook signature', over a
\* payload that is not JSON too
C26_FirstFailingCheck ==
    Called =>
        /\ HeaderV1Entry = Undefined => InvalidFormat
        /\ ( /\ Truthy(HeaderDigest)
             /\ IsDecimalInteger(HeaderTs)
             /\ ~WithinWindow(ParseInt(HeaderTs).n) )
           => Expired
        /\ ( /\ Truthy(HeaderDigest)
             /\ HeaderInsideWindow
             /\ HeaderDigest # ExpectedDigest )
           => InvalidSignature

\* C30 (as claimed): a header with a `t` entry and a `v1` entry, in any
\* order, with white space or an unknown entry between them, has the
\* outcome of the header `t=<t>,v1=<v1>` with the same two values
C30_OnlyEntryValuesMatter ==
    (Called /\ HeaderTEntry # Undefined /\ HeaderV1Entry # Undefined) =>
        verifyResult =
            Verify([options EXCEPT !.signature =
                        TEntry(HeaderTEntry) \o <<",">> \o V1Entry(HeaderV1Entry)],
                   dateNow)

(***************************************************************************)
(* Properties of LoopClient.request (checked under Spec and FairSpec)      *)
(***************************************************************************)
Settled(c) == call[c].pc = "settled"

\* the promise request returned has not settled yet
InFlight(c) == call[c].pc \in {"fetch", "errorBody", "successBody"}

RejectedWith(c, code, status) ==
    /\ Settled(c)
    /\ call[c].outcome.state = "rejected"
    /\ call[c].outcome.error.loopError
    /\ call[c].outcome.error.code = Some(code)
    /\ call[c].outcome.error.status = status

TimerArmed(c) == call[c].timer.state = "armed"

\* the three terminal states of a call, and what is none of them
Terminal(c) ==
    IF call[c].outcome.state = "fulfilled" THEN "Success"
    ELSE IF call[c].outcome.state = "rejected" /\ call[c].outcome.error.loopError
    THEN IF call[c].outcome.error.code \in {Some("timeout"), Some("network_error")}
         THEN "TransportError" ELSE "ClassifiedError"
    ELSE IF call[c].outcome.state = "rejected" THEN "UntypedError"
    ELSE "Pending"

\* C6: once the timer of a call has fired and aborted the fetch in flight,
\* the call eventually fails with code 'timeout' and status 408 and its
\* timer is not armed; a timer that is due while the response has not
\* arrived fires, unless the response arrives at that very moment.  An
\* aborted call stays aborted and a settled call stays as it is (the second
\* conjunct), so "eventually" is: again and again no timer is left due and
\* every aborted call has failed with the timeout error
C6_TimeoutLeadsToTimeoutError ==
    /\ []<>(\A c \in Calls :
              /\ ~(call[c].pc = "fetch" /\ TimerArmed(c) /\ call[c].timer.remaining = 0)
              /\ call[c].aborted => (RejectedWith(c, "timeout", 408) /\ ~TimerArmed(c)))
    /\ [][\A c \in Calls :
              /\ call[c].aborted => call'[c].aborted
              /\ Settled(c) => call'[c] = call[c]]_vars

\* C6 witness: a call has failed with the timeout error after its timer fired
C6_Witness ==
    \E c \in Calls :
        /\ call[c].aborted
        /\ call[c].timer.state = "fired"
        /\ RejectedWith(c, "timeout", 408)

\* C7 (as claimed): a call in flight has its timer armed; there is no state
\* in which the call has not settled and its timer is already disarmed
C7_InFlightImpliesArmed ==
    \A c \in Calls : ~(InFlight(c) /\ call[c].timer.state = "cleared")

\* C8 (as claimed): every failure reaches the caller as a LoopError, and no
\* failure is swallowed: a call never fulfils after a non-2xx response
C8_EveryFailureIsLoopError ==
    \A c \in Calls :
        Settled(c) =>
            /\ call[c].outcome.state = "rejected" => call[c].outcome.error.loopError
            /\ (call[c].status # 0 /\ ~Ok(call[c].status))
               => call[c].outcome.state = "rejected"

\* C9 (as claimed): a call makes one HTTP attempt, never a second one, and
\* ends in one of Success, ClassifiedError and TransportError
C9_OneAttemptThreeTerminalStates ==
    \A c \in Calls :
        /\ call[c].attempts <= 1
        /\ Settled(c) => Terminal(c) \in {"Success", "ClassifiedError", "TransportError"}
        /\ (Settled(c) /\ call[c].status # 0) => call[c].attempts = 1

\* C10: a settled call, whatever its outcome, has no timer armed
C10_SettledImpliesTimerCleared ==
    \A c \in Calls : Settled(c) => ~TimerArmed(c)

\* C10 witness: a call that failed with a network error has its timer cleared
C10_Witness ==
    \E c \in Calls :
        /\ RejectedWith(c, "network_error", 0)
        /\ call[c].attempts = 1
        /\ call[c].timer.state = "cleared"

\* a response was received and it was not a 2xx one
NonOkResponse(c) == call[c].status # 0 /\ ~Ok(call[c].status)

\* the error class the status selects
KindOfStatus(status) ==
    IF status = 401 THEN "AuthenticationError"
    ELSE IF status = 400 THEN "ValidationError"
    ELSE IF status = 404 THEN "NotFoundError"
    ELSE IF status = 429 THEN "RateLimitError"
    ELSE "LoopError"

\* the step is one call of request on call c with the method and the path:
\* either fetch has this one request in flight, the first attempt of the
\* call, or the body could not be serialized and the call has failed with a
\* network error before any attempt; no other call is touched
IssuesOneRequest(c, method, path) ==
    /\ call[c].pc = "idle" /\ call[c].attempts = 0
    /\ \/ /\ call'[c].pc = "fetch"
          /\ call'[c].attempts = 1
          /\ call'[c].sent.method = method
          /\ call'[c].sent.url = config.baseUrl \o path
          /\ call'[c].outcome = Pending
       \/ /\ method = "POST"
          /\ call'[c].attempts = 0
          /\ call'[c].sent = NoRequest
          /\ Settled(c)'
          /\ call'[c].outcome.state = "rejected"
          /\ call'[c].outcome.error.code = Some("network_error")
    /\ \A other \in Calls \ {c} : call'[other] = call[other]

\* C24: each operation of a facade is one request of the client with the
\* method and the path of the table, and no step makes a second attempt:
\* the outcome of the operation is that of this one request
C24_FacadeIsOneRequest ==
    [][/\ \A c \in Calls, id \in Ids, params \in Bodies :
             /\ OrdersCreate(c, params) =>
                    IssuesOneRequest(c, "POST", <<"/v1/orders">>)
             /\ OrdersGet(c, id) =>
                    IssuesOneRequest(c, "GET", <<"/v1/orders/", id>>)
             /\ OrdersPay(c, id, params) =>
                    IssuesOneRequest(c, "POST", <<"/v1/orders/", id, "/pay">>)
             /\ OrdersGetTransactions(c, id) =>
                    IssuesOneRequest(c, "GET", <<"/v1/orders/", id, "/transactions">>)
             /\ OrdersRefund(c, id, params) =>
                    IssuesOneRequest(c, "POST", <<"/v1/orders/", id, "/refund">>)
             /\ OrdersGetRefunds(c, id) =>
                    IssuesOneRequest(c, "GET", <<"/v1/orders/", id, "/refunds">>)
             /\ CheckoutCreateSession(c, params) =>
                    IssuesOneRequest(c, "POST", <<"/v1/checkout/sessions">>)
             /\ CheckoutGetSession(c, id) =>
                    IssuesOneRequest(c, "GET", <<"/v1/checkout/sessions/", id>>)
       /\ \A c \in Calls :
             /\ call'[c].attempts <= 1
             /\ call[c].pc # "idle" =>
                    /\ call'[c].attempts = call[c].attempts
                    /\ call'[c].sent \in {call[c].sent, NoRequest}]_vars

\* C24 witness: orders.refund('ord_1') has its one request in flight, a POST
\* to /v1/orders/ord_1/refund with the empty object as body
C24_Witness ==
    \E c \in Calls :
        /\ call[c].pc = "fetch"
        /\ call[c].attempts = 1
        /\ call[c].sent.method = "POST"
        /\ call[c].sent.url = config.baseUrl \o <<"/v1/orders/", "ord_1", "/refund">>
        /\ call[c].sent.body = Some(<<"{}">>)

\* an error has been made
Thrown == thrown.error # NoError

\* the constants of the kind of an error, by its class
KindConstants(e) ==
    /\ e.loopError /\ e.isError
    /\ e.name \in {"LoopError", "AuthenticationError", "ValidationError",
                   "NotFoundError", "RateLimitError", "ProcessorError"}
    /\ e.name = "AuthenticationError" =>
           e.code = Some("authentication_error") /\ e.status = 401
    /\ e.name = "ValidationError" =>
           e.code = Some("validation_error") /\ e.status = 400
    /\ e.name = "NotFoundError" =>
           e.code = Some("not_found") /\ e.status = 404
    /\ e.name = "RateLimitError" =>
           /\ e.code = Some("rate_limit") /\ e.status = 429
           /\ e.message = <<"Too many requests">>
    /\ e.name = "ProcessorError" =>
           e.code = Some("processor_error") /\ e.status = 400

\* what a constructor makes of its arguments
ConstructorKeepsArguments ==
    LET e == thrown.error
        a == thrown.args
    IN  /\ thrown.class \notin {"response", "transport"} => e.name = thrown.class
        /\ thrown.class = "LoopError" =>
               e.code = a[1] /\ e.message = a[2][1] /\ e.status = a[3]
        /\ thrown.class = "AuthenticationError" =>
               e.message = IF a[1] = None THEN <<"Invalid API key">> ELSE a[1][1]
        /\ thrown.class = "ValidationError" => e.message = a[1][1]
        /\ thrown.class = "NotFoundError" => e.message = a[1] \o <<" not found">>
        /\ thrown.class = "ProcessorError" =>
               e.message = a[1] /\ e.processorCode = a[2]

TransientFailure(c) ==
    /\ call[c].attempts >= 1
    /\ \/ RejectedWith(c, "network_error", 0)
       \/ RejectedWith(c, "timeout", 408)
       \/ call[c].status \in {429, 500}

\* C22 (as claimed): a transient failure leads to a further attempt before
\* an error reaches the caller: a call that has settled with a transient
\* failure has made at least two attempts
C22_TransientFailureIsRetried ==
    \A c \in Calls : (Settled(c) /\ TransientFailure(c)) => call[c].attempts >= 2

C11_StatusFixesKind ==
    \A c \in Calls :
        (Settled(c) /\ NonOkResponse(c)) =>
            /\ call[c].outcome.state = "rejected"
            /\ call[c].outcome.error.loopError
            /\ call[c].outcome.error.name = KindOfStatus(call[c].status)
            /\ call[c].outcome.error.status = call[c].status
            /\ call[c].outcome.error.code \notin {Some("network_error"), Some("timeout")}
            /\ call[c].status = 404 =>
                   /\ call[c].outcome.error.code = Some("not_found")
                   /\ call[c].outcome.error.message = <<"Resource", " not found">>

\* C12: a call that ends without a response ends in one of two ways: if its
\* own timer fired and aborted it, with code 'timeout' and status 408; else
\* with code 'network_error', status 0 and the message of the failure (of
\* fetch when the request was sent, of JSON.stringify when it was not)
C12_TimeoutOrNetworkError ==
    \A c \in Calls :
        (Settled(c) /\ call[c].status = 0) =>
            IF call[c].aborted
            THEN /\ call[c].timer.state = "fired"
                 /\ RejectedWith(c, "timeout", 408)
            ELSE /\ call[c].timer.state = "cleared"
                 /\ RejectedWith(c, "network_error", 0)
                 /\ call[c].outcome.error.message \in
                        IF call[c].attempts = 1
                        THEN {f.message : f \in NetworkFailures}
                        ELSE {<<"Converting circular structure to JSON">>}

\* C12 witness: a request that was sent failed with the network error that
\* carries the message of the fetch failure, its timer not having fired
C12_Witness ==
    \E c \in Calls :
        /\ call[c].attempts = 1
        /\ ~call[c].aborted
        /\ RejectedWith(c, "network_error", 0)
        /\ call[c].outcome.error.message = <<"fetch failed">>

\* C13: when the body of a non-2xx response cannot be decoded, the call
\* fails with the error class of the status, built from the body
\* {code: 'unknown', message: 'An error occurred'}, and not with the
\* decoding failure
C13_UndecodableErrorBody ==
    [][\A c \in Calls :
          ErrorBodyDone(c, GarbageBody) =>
              LET status == call[c].status
                  e      == call'[c].outcome.error
              IN  /\ call'[c].outcome.state = "rejected"
                  /\ e.loopError
                  /\ e.name = KindOfStatus(status)
                  /\ e.status = status
                  /\ status \in {400, 401} => e.message = <<"An error occurred">>
                  /\ status \notin {400, 401, 404, 429} =>
                         /\ e.code = Some("unknown")
                         /\ e.message = <<"An error occurred">>]_vars

\* C13 witness: a call answered with status 500 has failed with the code
\* and message of the substituted body
C13_Witness ==
    \E c \in Calls :
        /\ call[c].status = 500
        /\ RejectedWith(c, "unknown", 500)
        /\ call[c].outcome.error.message = <<"An error occurred">>

\* C14: a 204 response ends the call at once with undefined, no body is
\* read for it; the body of any other 2xx response is read and, when it
\* decodes, is what the call returns
C14_NoContentElseDecodedBody ==
    [][\A c \in Calls :
          /\ FetchResolve(c, 204) =>
                 /\ call'[c].pc = "settled"
                 /\ call'[c].outcome = Fulfilled(None)
          /\ call'[c].pc \in {"successBody", "errorBody"} => call'[c].status # 204
          /\ \A body \in ResponseBodies :
                 (SuccessBodyDone(c, body) /\ body.decodes) =>
                     /\ Ok(call[c].status) /\ call[c].status # 204
                     /\ call'[c].outcome = Fulfilled(Some(body.value))]_vars

\* C14 witness: one call has returned undefined for a 204 and another the
\* decoded object of a 200
C14_Witness ==
    \E c, d \in Calls :
        /\ Settled(c) /\ call[c].status = 204 /\ call[c].outcome = Fulfilled(None)
        /\ Settled(d) /\ call[d].status = 200
        /\ call[d].outcome = Fulfilled(Some("object"))

Methods == {"GET", "POST", "PUT", "DELETE"}

\* C15: the request handed to fetch has no body for GET and, for POST, PUT
\* and DELETE, the JSON text of the body given or `{}` when none is given
C15_BodyOfRequestSent ==
    [][\A c \in Calls, method \in Methods, path \in Paths, body \in Bodies :
          (Request(c, method, path, body) /\ call'[c].pc = "fetch") =>
              /\ call'[c].sent.method = method
              /\ call'[c].sent.body =
                     IF method = "GET" THEN None
                     ELSE IF body = None THEN Some(<<"{}">>)
                     ELSE Some(body[1].json)]_vars

\* C15 witness: a POST issued without a body is in flight with the body `{}`
C15_Witness ==
    \E c \in Calls :
        /\ call[c].pc = "fetch"
        /\ call[c].sent.method = "POST"
        /\ call[c].sent.body = Some(<<"{}">>)

\* call c has changed in this step by more than the passing of time
Stepped(c) ==
    [call'[c] EXCEPT !.timer.remaining = 0] # [call[c] EXCEPT !.timer.remaining = 0]

\* C16: a step of one call changes no other call; a call is aborted only by
\* its own timer, fails with the timeout error only if its own timer fired,
\* and a settled call is not changed by whatever the other calls do
C16_CallsDoNotInteract ==
    [][\A c \in Calls :
          /\ \A d \in Calls \ {c} : ~(Stepped(c) /\ Stepped(d))
          /\ call'[c].aborted => call'[c].timer.state = "fired"
          /\ call'[c].outcome.error.code = Some("timeout") =>
                 call'[c].timer.state = "fired"
          /\ Settled(c) => call'[c] = call[c]]_vars

\* C16 witness: of two calls issued on the one client, one has failed with
\* the timeout error while the other is still in flight, not aborted, its
\* timer armed
C16_Witness ==
    \E c, d \in Calls :
        /\ c # d
        /\ RejectedWith(c, "timeout", 408)
        /\ call[d].pc = "fetch" /\ ~call[d].aborted /\ TimerArmed(d)

\* C17: no step of a request call changes the configuration, which is the
\* one the constructor made of its argument
C17_ConfigReadOnly ==
    [][config' = config /\ config' = Loop(loop'.arg).client]_vars

\* C17 witness: calls have ended in a success and in a classified error,
\* and the configuration is the constructor's
C17_Witness ==
    \E c, d \in Calls :
        /\ Settled(c) /\ Terminal(c) = "Success"
        /\ Settled(d) /\ Terminal(d) = "ClassifiedError"
        /\ config = Loop(loop.arg).client
        /\ config.timeout \in 1..MaxTimeout

(***************************************************************************)
(* Properties of the constructors (checked under ConstructSpec)            *)
(***************************************************************************)
\* the API key the constructor's argument carries, None when it has none
ArgKey ==
    IF loop.arg.type = "string" THEN Some(loop.arg.value) ELSE loop.arg.value.apiKey

NoNetworkActivity == \A c \in Calls : call[c] = IdleCall

\* C18: a constructor called with a missing or empty API key throws
\* 'API key is required', no resource facade exists and no request was
\* made; called with a non-empty key it succeeds, with that key in the
\* client, and no request was made
C18_ApiKeyRequired ==
    loop.state # "new" =>
        IF ArgKey = None \/ ArgKey = Some(<<>>)
        THEN /\ loop.state = "threw"
             /\ loop.error.name = "Error"
             /\ loop.error.message = <<"API key is required">>
             /\ ~loop.orders /\ ~loop.checkout
             /\ NoNetworkActivity
        ELSE /\ loop.state = "constructed"
             /\ config.apiKey = ArgKey[1]
             /\ loop.entry = "Loop" => (loop.orders /\ loop.checkout)
             /\ NoNetworkActivity

\* C18 witness: new Loop('') has thrown
C18_Witness ==
    /\ loop.entry = "Loop"
    /\ loop.arg = StringArg(<<>>)
    /\ loop.state = "threw"
    /\ loop.error.message = <<"API key is required">>

====
